---------------------------- MODULE Spec2Model ----------------------------
(***************************************************************************)
(* leptos-image: the image cache route (src/src/routes.rs), the           *)
(* placeholder cache it warms, and the Image component's placeholder       *)
(* lookup (src/src/image.rs).                                              *)
(*                                                                         *)
(* routes.rs imports crate::optimizer (CachedImage, ImageOptimizer,       *)
(* create_image, the key codec, the file paths).  That module is not part  *)
(* of the sources at hand; the definitions that stand for it are written   *)
(* from the design document (sections 3, 4.1, 4.2, 5) and are marked so.   *)
(*                                                                         *)
(* A task is one execution of an async function: either one run of         *)
(* image_cache_handler_inner for one inbound request, or the call of       *)
(* add_image_cache with a batch (the bulk path, which the design document  *)
(* places at startup: one call in the life of the process).  Tasks         *)
(* interleave at their .await points and at their accesses to the shared   *)
(* cache and the file system.                                              *)
(***************************************************************************)
EXTENDS Integers, Sequences, FiniteSets, TLC

\* ------------------------------------------------------------- bounds
\* Number of tasks (handler requests and bulk warm calls together).
MaxTasks == 2
\* Longest batch handed to the bulk path.
MaxBatch == 2

Tasks == 1..MaxTasks

\* ------------------------------------------------------- requests
\* Source paths, as sequences of characters.
Cat == <<"c">>
Spaced == <<"c", " ", "d">>
Gone == <<"g">>

\* The originals present under the site root.
Assets == {Cat, Spaced}

\* CachedImage { src, option }; option is the variant tag.
MkImage(s, o) == [src |-> s, option |-> o]

Images ==
    { MkImage(Cat, "Blur"), MkImage(Spaced, "Resize"), MkImage(Gone, "Blur") }

NoImage == MkImage(<<>>, "None")

\* ------------------------------------------------------- key codec
\* CachedImage::get_url_encoded: the token of a request.
Encode(image) == <<image.option, ":">> \o image.src

\* CachedImage::from_url_encoded: fails on anything that is no encoding.
Decode(token) ==
    IF /\ Len(token) >= 3
       /\ token[1] \in {"Blur", "Resize"}
       /\ token[2] = ":"
    THEN [ok |-> TRUE, image |-> MkImage(SubSeq(token, 3, Len(token)), token[1])]
    ELSE [ok |-> FALSE, image |-> NoImage]

\* Request paths that are no token: truncated, unknown variant.
Garbage == { <<"Blur", ":">>, <<"Zoom", ":", "c">> }

Tokens == { Encode(i) : i \in Images } \cup Garbage

\* ------------------------------------------------------- file paths
Root == <<"site", "/">>

Ext(image) == IF image.option = "Resize" THEN "webp" ELSE "svg"

\* CachedImage::get_file_path: relative, deterministic, one per request.
GetFilePath(image) ==
    <<"cache", "/", image.option, "/">> \o image.src \o <<".", Ext(image)>>

\* ImageOptimizer::get_file_path_from_root.
GetFilePathFromRoot(image) == Root \o GetFilePath(image)

Paths == { GetFilePathFromRoot(i) : i \in Images }

\* Characters http::Uri refuses in a path.
UriForbidden == {" ", "<", ">"}

\* (uri_string).parse::<Uri>().ok()
ParseUri(s) ==
    IF \A k \in 1..Len(s) : s[k] \notin UriForbidden
    THEN [ok |-> TRUE, uri |-> s]
    ELSE [ok |-> FALSE, uri |-> <<>>]

\* ------------------------------------------------------- files
NoFile == [exists |-> FALSE, data |-> <<>>]
File(d) == [exists |-> TRUE, data |-> d]

\* The transform capability: the derivative's complete bytes.
Transform(image) == <<"<", image.option>> \o image.src \o <<">">>

\* What a writer has put down before the write is complete.
Partial(bytes) == SubSeq(bytes, 1, 1)

\* ------------------------------------------------------- results
NoResult == [st |-> "none", created |-> FALSE, err |-> "none"]
Ok(b) == [st |-> "ok", created |-> b, err |-> "none"]
Err(e) == [st |-> "err", created |-> FALSE, err |-> e]

\* Result<Option<Uri>, CreateImageError> of check_cache_image.
NoCheck == [st |-> "none", uri |-> <<>>, err |-> "none"]
CheckSome(u) == [st |-> "some", uri |-> u, err |-> "none"]
CheckNone == [st |-> "nothing", uri |-> <<>>, err |-> "none"]
CheckErr(e) == [st |-> "err", uri |-> <<>>, err |-> e]

NoResponse == [status |-> 0, body |-> <<>>]
Response(s, b) == [status |-> s, body |-> b]

VARIABLES
    disk,        \* published files: absolute path -> file
    tmp,         \* temporary files of creations in progress
    inflight,    \* request -> the task creating it (0: none)
    cache,       \* optimizer.cache: request -> payload
    transforms,  \* request -> transform invocations so far
    srcReads,    \* request -> loads of the original so far
    aborted,     \* request -> transform invocations whose creation failed
    kind,        \* task -> "none" | "handler" | "bulk"
    pc,          \* task -> position
    tok,         \* handler: the token of the inbound path
    img,         \* handler: the decoded request
    result,      \* handler: what create_image returned
    offered,     \* handler: add_file_to_cache was called
    fdata,       \* handler: the file's bytes when create_image returned Ok
    size,        \* how many images the iterator handed to add_image_cache holds
    left,        \* how many of them it has not yielded yet
    batch,       \* the images it has yielded so far
    cur,         \* the image being read
    readOk,      \* images this task read and inserted
    readErr,     \* images this task failed to read
    cres,        \* handler: what check_cache_image returned
    resp         \* handler: the response

vars ==
    << disk, tmp, inflight, cache, transforms, srcReads, aborted, kind, pc,
       tok, img, result, offered, fdata, size, left, batch, cur, readOk,
       readErr,
       cres, resp >>

storeVars == << disk, tmp, inflight, transforms, srcReads, aborted >>
warmVars == << size, left, batch, cur, readOk, readErr >>

EmptyCache == [i \in {} |-> <<>>]

Init ==
    /\ disk = [p \in Paths |-> NoFile]
    /\ tmp = [p \in Paths |-> NoFile]
    /\ inflight = [i \in Images |-> 0]
    /\ cache = EmptyCache
    /\ transforms = [i \in Images |-> 0]
    /\ srcReads = [i \in Images |-> 0]
    /\ aborted = [i \in Images |-> 0]
    /\ kind = [t \in Tasks |-> "none"]
    /\ pc = [t \in Tasks |-> "idle"]
    /\ tok = [t \in Tasks |-> <<>>]
    /\ img = [t \in Tasks |-> NoImage]
    /\ result = [t \in Tasks |-> NoResult]
    /\ offered = [t \in Tasks |-> FALSE]
    /\ fdata = [t \in Tasks |-> <<>>]
    /\ size = [t \in Tasks |-> 0]
    /\ left = [t \in Tasks |-> 0]
    /\ batch = [t \in Tasks |-> <<>>]
    /\ cur = [t \in Tasks |-> NoImage]
    /\ readOk = [t \in Tasks |-> {}]
    /\ readErr = [t \in Tasks |-> {}]
    /\ cres = [t \in Tasks |-> NoCheck]
    /\ resp = [t \in Tasks |-> NoResponse]


\* ------------------------------------------------------- derivative store
\* Variant: the existence check never finds the file.
FileExistsNever(d, p) == FALSE

\* The existence check of the fast path.
FileExists(d, p) == d[p].exists

\* Variant: no creation is ever seen in progress.
InFlightNever(f, image) == FALSE

\* Whether a creation of this request is in progress (the single-flight map).
InFlight(f, image) == f[image] # 0

\* The outcome reaches the creating task and every task attached to it.
Attached(t, image) ==
    { x \in Tasks : x = t \/ (pc[x] = "wait" /\ img[x] = image) }

\* create_image, entry: fast path, attach to a creation in progress, or
\* become the creator.
CreateCheck(t) ==
    /\ pc[t] = "create"
    /\ LET image == img[t]
           p == GetFilePathFromRoot(image)
       IN  IF FileExists(disk, p)
           THEN /\ result' = [result EXCEPT ![t] = Ok(FALSE)]
                /\ pc' = [pc EXCEPT ![t] = "created"]
                /\ UNCHANGED inflight
           ELSE IF InFlight(inflight, image)
           THEN /\ pc' = [pc EXCEPT ![t] = "wait"]
                /\ UNCHANGED << result, inflight >>
           ELSE /\ inflight' = [inflight EXCEPT ![image] = t]
                /\ pc' = [pc EXCEPT ![t] = "load"]
                /\ UNCHANGED result
    /\ UNCHANGED << disk, tmp, cache, transforms, srcReads, aborted, kind,
                    tok, img, offered, fdata, cres, resp >>
    /\ UNCHANGED warmVars

\* The creation failed: no file is left, the error is delivered.
CreateFail(t, image, e) ==
    /\ aborted' = [aborted EXCEPT
                     ![image] = IF e = "SourceNotFound" THEN @ ELSE @ + 1]
    /\ inflight' = [inflight EXCEPT ![image] = 0]
    /\ tmp' = [tmp EXCEPT ![GetFilePathFromRoot(image)] = NoFile]
    /\ result' = [x \in Tasks |->
                    IF x \in Attached(t, image) THEN Err(e) ELSE result[x]]
    /\ pc' = [x \in Tasks |->
                    IF x \in Attached(t, image) THEN "created" ELSE pc[x]]

\* create_image, steps 3-5: load the original, decode, transform; the bytes
\* start going to a temporary file.
CreateTransform(t) ==
    /\ pc[t] = "load"
    /\ LET image == img[t]
           p == GetFilePathFromRoot(image)
       IN  /\ srcReads' = [srcReads EXCEPT ![image] = @ + 1]
           /\ IF image.src \notin Assets
              THEN /\ CreateFail(t, image, "SourceNotFound")
                   /\ UNCHANGED transforms
              ELSE /\ transforms' = [transforms EXCEPT ![image] = @ + 1]
                   /\ \E good \in BOOLEAN :
                        IF good
                        THEN /\ tmp' = [tmp EXCEPT
                                          ![p] = File(Partial(Transform(image)))]
                             /\ pc' = [pc EXCEPT ![t] = "persist"]
                             /\ UNCHANGED << aborted, inflight, result >>
                        ELSE CreateFail(t, image, "TransformError")
    /\ UNCHANGED << disk, cache, kind, tok, img, offered, fdata, cres, resp >>
    /\ UNCHANGED warmVars

\* create_image, step 6: the write completes and the file is renamed into
\* place, or the write fails.
CreatePublish(t) ==
    /\ pc[t] = "persist"
    /\ LET image == img[t]
           p == GetFilePathFromRoot(image)
       IN  \E good \in BOOLEAN :
             IF good
             THEN /\ disk' = [disk EXCEPT ![p] = File(Transform(image))]
                  /\ tmp' = [tmp EXCEPT ![p] = NoFile]
                  /\ inflight' = [inflight EXCEPT ![image] = 0]
                  /\ result' = [x \in Tasks |->
                        IF x \in Attached(t, image) THEN Ok(TRUE) ELSE result[x]]
                  /\ pc' = [x \in Tasks |->
                        IF x \in Attached(t, image) THEN "created" ELSE pc[x]]
                  /\ UNCHANGED aborted
             ELSE /\ CreateFail(t, image, "IoError")
                  /\ UNCHANGED disk
    /\ UNCHANGED << cache, transforms, srcReads, kind, tok, img, offered,
                    fdata, cres, resp >>
    /\ UNCHANGED warmVars

\* ------------------------------------------------------- placeholder cache
\* tokio::fs::read_to_string: the file's contents, or an error (always an
\* error when there is no file).
ReadToString(d, p) ==
    IF p \in DOMAIN d /\ d[p].exists
    THEN { [ok |-> TRUE, data |-> d[p].data], [ok |-> FALSE, data |-> <<>>] }
    ELSE { [ok |-> FALSE, data |-> <<>>] }

\* Variant: an insert into an occupied entry appends to it.
CacheInsertAppend(c, image, data) ==
    [x \in DOMAIN c \cup {image} |->
        IF x = image
        THEN (IF image \in DOMAIN c THEN c[image] \o data ELSE data)
        ELSE c[x]]

\* optimizer.cache.insert(image, data)
CacheInsert(c, image, data) ==
    [x \in DOMAIN c \cup {image} |-> IF x = image THEN data ELSE c[x]]

\* Variant: the variant filter lets every image through.
BlurFilterOff(image) == TRUE

\* The first filter of add_image_cache.
BlurFilter(image) == image.option = "Blur"

\* The second filter of add_image_cache.
AbsentFilter(c, image) == image \notin DOMAIN c

\* Variant: a failed read inserts the default (empty) string.
OnReadDefault(c, image, rd) ==
    [x \in DOMAIN c \cup {image} |-> IF x = image THEN rd.data ELSE c[x]]

\* The match on the read's result.
OnRead(c, image, rd) == IF rd.ok THEN CacheInsert(c, image, rd.data) ELSE c

\* Variant: a failed read ends the loop.
AfterReadBreak(rest, rd) == IF rd.ok THEN rest ELSE 0

\* The loop goes on with the next image whatever the read gave.
AfterRead(rest, rd) == rest

\* Variant: the match on the variant is inverted.
AddFileToCacheInverted(image) ==
    IF image.option = "Blur" THEN <<>> ELSE <<image>>

\* add_file_to_cache: the batch it hands to add_image_cache.
AddFileToCache(image) == IF image.option = "Blur" THEN <<image>> ELSE <<>>

\* ------------------------------------------------------- handler
\* The tail of check_cache_image: the file path as a uri.
FinishCheck(image) ==
    LET parsed == ParseUri(<<"/">> \o GetFilePath(image))
    IN  IF parsed.ok THEN CheckSome(parsed.uri) ELSE CheckNone

\* execute_file_handler: ServeDir on the site root.
ExecuteFileHandler(uri, d) ==
    LET p == Root \o Tail(uri)
    IN  IF p \in DOMAIN d /\ d[p].exists
        THEN Response(200, d[p].data)
        ELSE Response(404, <<>>)

\* Variant: Ok(None) is answered like an error.
ResponseForNoneAsError(c, d) ==
    IF c.st = "some" THEN ExecuteFileHandler(c.uri, d)
    ELSE Response(500, <<"Error creating image">>)

\* The match of image_cache_handler_inner.
ResponseFor(c, d) ==
    IF c.st = "some" THEN ExecuteFileHandler(c.uri, d)
    ELSE IF c.st = "nothing" THEN Response(404, <<"Invalid Image.">>)
    ELSE Response(500, <<"Error creating image">>)

\* Variant: the error is dropped and check_cache_image goes on.
PropagatesErrorNever(res) == FALSE

\* result?: an error leaves check_cache_image at once.
PropagatesError(res) == res.st = "err"

\* Tasks start in the order of their numbers.
MayStart(t) == pc[t] = "idle" /\ (IF t = 1 THEN TRUE ELSE pc[t - 1] # "idle")

\* check_cache_image returns c and image_cache_handler_inner answers.
Answer(t, c) ==
    /\ cres' = [cres EXCEPT ![t] = c]
    /\ resp' = [resp EXCEPT ![t] = ResponseFor(c, disk)]
    /\ pc' = [pc EXCEPT ![t] = "done"]

\* A request arrives: the handler decodes the path.
Receive(t, u) ==
    /\ MayStart(t)
    /\ kind' = [kind EXCEPT ![t] = "handler"]
    /\ tok' = [tok EXCEPT ![t] = u]
    /\ LET dec == Decode(u)
       IN  IF dec.ok
           THEN /\ img' = [img EXCEPT ![t] = dec.image]
                /\ pc' = [pc EXCEPT ![t] = "create"]
                /\ UNCHANGED << cres, resp >>
           ELSE /\ Answer(t, CheckNone)
                /\ UNCHANGED img
    /\ UNCHANGED << cache, result, offered, fdata >>
    /\ UNCHANGED storeVars
    /\ UNCHANGED warmVars

\* create_image has returned: an error is answered at once; otherwise
\* add_file_to_cache is called, which for a blur request enters
\* add_image_cache and for any other returns, so that the handler answers.
AfterCreate(t) ==
    /\ pc[t] = "created"
    /\ IF PropagatesError(result[t])
       THEN /\ Answer(t, CheckErr(result[t].err))
            /\ UNCHANGED << offered, fdata, size, left >>
       ELSE /\ offered' = [offered EXCEPT ![t] = TRUE]
            /\ fdata' = [fdata EXCEPT
                           ![t] = disk[GetFilePathFromRoot(img[t])].data]
            /\ size' = [size EXCEPT ![t] = Len(AddFileToCache(img[t]))]
            /\ left' = [left EXCEPT ![t] = Len(AddFileToCache(img[t]))]
            /\ IF AddFileToCache(img[t]) = <<>>
               THEN Answer(t, FinishCheck(img[t]))
               ELSE /\ pc' = [pc EXCEPT ![t] = "warm"]
                    /\ UNCHANGED << cres, resp >>
    /\ UNCHANGED << cache, kind, tok, img, result, batch, cur, readOk, readErr >>
    /\ UNCHANGED storeVars

\* The bulk path: add_image_cache is called, once, with an iterator of n
\* images; handler requests may be in progress and may follow.
BulkStart(t, n) ==
    /\ MayStart(t)
    /\ \A x \in Tasks : kind[x] # "bulk"
    /\ kind' = [kind EXCEPT ![t] = "bulk"]
    /\ size' = [size EXCEPT ![t] = n]
    /\ left' = [left EXCEPT ![t] = n]
    /\ pc' = [pc EXCEPT ![t] = "warm"]
    /\ UNCHANGED << cache, tok, img, result, offered, fdata, batch, cur,
                    readOk, readErr, cres, resp >>
    /\ UNCHANGED storeVars

\* What the iterator may yield next: the handler's vec holds the resolved
\* image, the bulk path's iterator any image.
Yields(t) ==
    IF kind[t] = "handler"
    THEN { AddFileToCache(img[t])[k] : k \in 1..Len(AddFileToCache(img[t])) }
    ELSE Images

\* add_image_cache: the loop asks the filtered iterator for the next image.
\* The iterator is exhausted and the function returns, or it yields an image
\* that the filters drop, or one that they pass and whose read starts.
WarmNext(t) ==
    /\ pc[t] = "warm"
    /\ IF left[t] = 0
       THEN /\ IF kind[t] = "handler"
               THEN Answer(t, FinishCheck(img[t]))
               ELSE /\ pc' = [pc EXCEPT ![t] = "done"]
                    /\ UNCHANGED << cres, resp >>
            /\ UNCHANGED << left, batch, cur >>
       ELSE /\ \E i \in Yields(t) :
                 /\ batch' = [batch EXCEPT ![t] = Append(@, i)]
                 /\ IF BlurFilter(i) /\ AbsentFilter(cache, i)
                    THEN /\ cur' = [cur EXCEPT ![t] = i]
                         /\ pc' = [pc EXCEPT ![t] = "read"]
                    ELSE UNCHANGED << cur, pc >>
            /\ left' = [left EXCEPT ![t] = @ - 1]
            /\ UNCHANGED << cres, resp >>
    /\ UNCHANGED << cache, kind, tok, img, result, offered, fdata, size,
                    readOk, readErr >>
    /\ UNCHANGED storeVars

\* add_image_cache: the read completes; its data is inserted, or the error
\* is logged.
WarmRead(t) ==
    /\ pc[t] = "read"
    /\ \E rd \in ReadToString(disk, GetFilePathFromRoot(cur[t])) :
         /\ cache' = OnRead(cache, cur[t], rd)
         /\ left' = [left EXCEPT ![t] = AfterRead(left[t], rd)]
         /\ IF rd.ok
            THEN /\ readOk' = [readOk EXCEPT ![t] = @ \cup {cur[t]}]
                 /\ UNCHANGED readErr
            ELSE /\ readErr' = [readErr EXCEPT ![t] = @ \cup {cur[t]}]
                 /\ UNCHANGED readOk
    /\ pc' = [pc EXCEPT ![t] = "warm"]
    /\ UNCHANGED << kind, tok, img, result, offered, fdata, size, batch, cur,
                    cres, resp >>
    /\ UNCHANGED storeVars

Next ==
    \E t \in Tasks :
        \/ \E u \in Tokens : Receive(t, u)
        \/ CreateCheck(t)
        \/ CreateTransform(t)
        \/ CreatePublish(t)
        \/ AfterCreate(t)
        \/ \E n \in 0..MaxBatch : BulkStart(t, n)
        \/ WarmNext(t)
        \/ WarmRead(t)

Spec == Init /\ [][Next]_vars

\* ------------------------------------------------------- Image component
HandlerPath == <<"/", "img", "/">>

\* CachedImage::get_url_encoded(&handler_path)
GetUrlEncoded(image, path) == path \o Encode(image)

\* Image: the placeholder is the cached payload when the cache holds the
\* blur request, and a request url otherwise.
PlaceholderSvg(images, blur_image) ==
    IF blur_image \in DOMAIN images
    THEN [kind |-> "InMemory", data |-> images[blur_image]]
    ELSE [kind |-> "Request", data |-> GetUrlEncoded(blur_image, HandlerPath)]

\* ------------------------------------------------------- shorthands
Handler(t) == kind[t] = "handler"
Bulk(t) == kind[t] = "bulk"
Done(t) == pc[t] = "done"
Decodes(t) == Decode(tok[t]).ok
FileOf(image) == disk[GetFilePathFromRoot(image)]
Elems(s) == { s[k] : k \in 1..Len(s) }

\* ------------------------------------------------------- claims

\* C1: a request whose token does not decode is answered 404 and never
\* reaches creation: create_image is not called for it, it starts no
\* transform, and it neither offers anything to the placeholder cache nor
\* reads or inserts into it.
C1_UndecodableIsNotFound ==
    \A t \in Tasks :
        (Handler(t) /\ ~Decodes(t)) =>
            /\ Done(t)
            /\ img[t] = NoImage
            /\ result[t] = NoResult
            /\ ~offered[t]
            /\ size[t] = 0 /\ batch[t] = <<>>
            /\ readOk[t] = {} /\ readErr[t] = {}
            /\ cres[t] = CheckNone
            /\ resp[t] = Response(404, <<"Invalid Image.">>)

C1_Witness ==
    \E t \in Tasks :
        Handler(t) /\ tok[t] \in Garbage /\ Done(t) /\ resp[t].status = 404

C3_NotFoundOnlyForGarbage ==
    \A t \in Tasks :
        (Handler(t) /\ Done(t)) =>
            /\ (Decodes(t) /\ result[t].st = "ok") =>
                  resp[t] = Response(200, FileOf(img[t]).data)
            /\ resp[t].status = 404 => ~Decodes(t)

\* C4: a request whose token decodes and whose resolve fails is answered
\* 500, and is never offered to the placeholder cache: the handler goes
\* from the failed create_image straight to the response, without calling
\* add_file_to_cache and without reading or inserting anything.
C4_ResolveFailureIsServerError ==
    \A t \in Tasks :
        (Handler(t) /\ Decodes(t) /\ result[t].st = "err") =>
            /\ pc[t] \in {"created", "done"}
            /\ ~offered[t]
            /\ size[t] = 0 /\ batch[t] = <<>>
            /\ readOk[t] = {} /\ readErr[t] = {}
            /\ Done(t) =>
                 /\ cres[t] = CheckErr(result[t].err)
                 /\ resp[t].status = 500

C4_Witness ==
    \E t \in Tasks :
        /\ Handler(t) /\ Done(t) /\ img[t].option = "Blur"
        /\ result[t] = Err("IoError") /\ resp[t].status = 500
        /\ img[t] \notin DOMAIN cache

C6_OnlyBlurKeys == \A i \in DOMAIN cache : i.option = "Blur"

\* A bulk batch with a resize request whose file is on disk has been
\* processed.
C6_Witness ==
    \E t \in Tasks, i \in Images :
        /\ Bulk(t) /\ Done(t) /\ i \in Elems(batch[t])
        /\ i.option = "Resize" /\ FileOf(i).exists
        /\ i \notin DOMAIN cache

\* C7: once the handler has resolved a blur request, the request has been
\* offered to the cache before check_cache_image returns; unless the read of
\* the file failed, the cache then holds the file's contents for it from the
\* response on, and the Image component renders the in-memory payload.
C7_WarmBeforeResponse ==
    \A t \in Tasks :
        (/\ Handler(t) /\ Done(t)
         /\ img[t].option = "Blur" /\ result[t].st = "ok") =>
            /\ offered[t]
            /\ img[t] \notin readErr[t] =>
                 /\ img[t] \in DOMAIN cache
                 /\ cache[img[t]] = FileOf(img[t]).data
                 /\ PlaceholderSvg(cache, img[t]) =
                      [kind |-> "InMemory", data |-> Transform(img[t])]

C7_Witness ==
    \E t \in Tasks :
        /\ Handler(t) /\ Done(t) /\ img[t].option = "Blur"
        /\ result[t] = Ok(TRUE) /\ img[t] \in readOk[t]
        /\ resp[t].status = 200
        /\ PlaceholderSvg(cache, img[t]).kind = "InMemory"

\* C8: idempotent creation.  Any two successful resolves of one request
\* saw the same file path and the same file contents, and once a resolve of
\* the request has succeeded no later step invokes the transform for it or
\* reads its original again: exactly one transform invocation stands behind
\* the file.
C8_SameFile ==
    \A t1, t2 \in Tasks :
        (/\ Handler(t1) /\ Handler(t2) /\ img[t1] = img[t2]
         /\ result[t1].st = "ok" /\ result[t2].st = "ok"
         /\ pc[t1] = "done" /\ pc[t2] = "done") =>
            /\ fdata[t1] = fdata[t2]
            /\ fdata[t1] = FileOf(img[t1]).data
            /\ cres[t1] = cres[t2]
            /\ transforms[img[t1]] - aborted[img[t1]] = 1

C8_NoSecondTransform ==
    \A i \in Images :
        (\E t \in Tasks : img[t] = i /\ result[t].st = "ok") =>
            /\ transforms'[i] = transforms[i]
            /\ srcReads'[i] = srcReads[i]

C8_IdempotentCreation == [](C8_SameFile) /\ [][C8_NoSecondTransform]_vars

\* Two sequential resolves: the first created the file, the second found it.
C8_Witness ==
    \E t1, t2 \in Tasks :
        /\ img[t1] = img[t2] /\ Done(t1) /\ Done(t2)
        /\ result[t1] = Ok(TRUE) /\ result[t2] = Ok(FALSE)
        /\ transforms[img[t1]] = 1 /\ srcReads[img[t1]] = 1

\* C9: the bulk path is non-fatal per element.  A failed read changes
\* nothing in the cache, and when the batch is done every blur request of
\* it is either in the cache with its file's contents or is one whose every
\* read in this batch failed.
C9_BatchDone ==
    \A t \in Tasks :
        (Bulk(t) /\ Done(t)) =>
            /\ Len(batch[t]) = size[t]
            /\ \A i \in Elems(batch[t]) :
                 i.option = "Blur" =>
                     \/ /\ i \in DOMAIN cache
                        /\ FileOf(i).exists
                        /\ cache[i] = FileOf(i).data
                     \/ i \in readErr[t] /\ i \notin readOk[t]

C9_FailedReadSkips ==
    \A t \in Tasks :
        (/\ pc[t] = "read" /\ pc'[t] # "read"
         /\ readOk'[t] = readOk[t] /\ cur[t] \in readErr'[t]) =>
            cache' = cache

C9_BulkWarmNonFatal == [](C9_BatchDone) /\ [][C9_FailedReadSkips]_vars

\* A batch whose first element failed to read and whose second was read
\* and inserted.
C9_Witness ==
    \E t \in Tasks :
        /\ Bulk(t) /\ Done(t) /\ Len(batch[t]) = 2
        /\ batch[t][1] \in readErr[t]
        /\ batch[t][2] \in readOk[t]
        /\ batch[t][2] \in DOMAIN cache

\* C10: every entry of the placeholder cache is the complete contents of
\* the published derivative of its key, and a handler is inside
\* add_image_cache only when the derivative it resolved is published and
\* complete.
C10_CacheConsistent ==
    /\ \A i \in DOMAIN cache :
          /\ FileOf(i).exists
          /\ cache[i] = FileOf(i).data
          /\ cache[i] = Transform(i)
          /\ cache[i] # <<>>
    /\ \A t \in Tasks :
          (Handler(t) /\ pc[t] \in {"warm", "read"}) =>
              FileOf(img[t]) = File(Transform(img[t]))

\* Two concurrent handlers of one blur request, one of which created the
\* file while the other waited, with the payload in the cache.
C10_Witness ==
    \E t1, t2 \in Tasks :
        /\ t1 # t2 /\ Handler(t1) /\ Handler(t2)
        /\ img[t1] = img[t2] /\ img[t1].option = "Blur"
        /\ result[t1] = Ok(TRUE) /\ result[t2] = Ok(TRUE)
        /\ img[t1] \in DOMAIN cache

=============================================================================
